---------------------------- MODULE Spec2Model ----------------------------
(***************************************************************************)
(* State-machine model of the stock watch-list extension                   *)
(* (StockDataProvider, its timer and its configuration handlers).          *)
(*                                                                         *)
(* A JavaScript string is a sequence of one-character strings, so that     *)
(* trim, split, join, parseFloat and toFixed are computed character by     *)
(* character.  A JavaScript number is a record [k, m, e]: k = "num" is the  *)
(* decimal m / 10^e (kept normalised), k = "inf" is +-Infinity (sign in m) *)
(* and k = "nan" is NaN.                                                   *)
(***************************************************************************)
EXTENDS Integers, Sequences, FiniteSets, TLC

(***************************************************************************)
(* Bounds of the model.                                                    *)
(***************************************************************************)
\* longest configuration list the registry is loaded from (RegistrySpec)
MaxCfg == 2
\* longest configuration list the user sets while the extension runs (Spec)
MaxWatch == 1
\* number of refresh cycles one behaviour may start (cycle ids are 1..MaxCycles)
MaxCycles == 3
\* largest share count a holdings edit may request
MaxShares == 1
\* number of interval-timer handles the host may hand out
MaxTimers == 2
\* longest result collection ("diff") of a response
MaxDiff == 1
\* holdings edits that may be suspended at their await at one time
MaxAwait == 1
\* largest magnitude of the scaled integers of the decoded records
MaxScaled == 12

(***************************************************************************)
(* Strings.                                                                *)
(***************************************************************************)
Digits == <<"0", "1", "2", "3", "4", "5", "6", "7", "8", "9">>

IsDigit(c) == \E i \in 1..10 : Digits[i] = c

DigitVal(c) == (CHOOSE i \in 1..10 : Digits[i] = c) - 1

\* String.prototype.trim: strips leading and trailing white space
RECURSIVE TrimStart(_)
TrimStart(s) ==
  IF s # <<>> /\ Head(s) = " " THEN TrimStart(Tail(s)) ELSE s

RECURSIVE TrimEnd(_)
TrimEnd(s) ==
  IF s # <<>> /\ s[Len(s)] = " " THEN TrimEnd(SubSeq(s, 1, Len(s) - 1)) ELSE s

Trim(s) == TrimEnd(TrimStart(s))

\* String.prototype.indexOf for a one-character pattern, 1-based, 0 when absent
IndexOf(s, c) ==
  IF \E i \in 1..Len(s) : s[i] = c
  THEN CHOOSE i \in 1..Len(s) : s[i] = c /\ \A j \in 1..(i - 1) : s[j] # c
  ELSE 0

\* String.prototype.split(sep) for a one-character separator
RECURSIVE Split(_, _)
Split(s, sep) ==
  LET i == IndexOf(s, sep)
  IN  IF i = 0 THEN <<s>>
      ELSE <<SubSeq(s, 1, i - 1)>> \o Split(SubSeq(s, i + 1, Len(s)), sep)

\* Array.prototype.join(sep)
RECURSIVE Join(_, _)
Join(list, sep) ==
  IF list = <<>> THEN <<>>
  ELSE IF Len(list) = 1 THEN list[1]
  ELSE list[1] \o sep \o Join(Tail(list), sep)

\* String.prototype.startsWith
StartsWith(s, p) == Len(s) >= Len(p) /\ SubSeq(s, 1, Len(p)) = p

\* the longest prefix of s made of decimal digits
RECURSIVE DigitPrefix(_)
DigitPrefix(s) ==
  IF s # <<>> /\ IsDigit(Head(s)) THEN <<Head(s)>> \o DigitPrefix(Tail(s)) ELSE <<>>

\* the value of a sequence of decimal digits
RECURSIVE DigitsToNat(_)
DigitsToNat(ds) ==
  IF ds = <<>> THEN 0
  ELSE 10 * DigitsToNat(SubSeq(ds, 1, Len(ds) - 1)) + DigitVal(ds[Len(ds)])

\* decimal digits of a natural number (String(n) for n >= 0)
RECURSIVE NatToStr(_)
NatToStr(n) ==
  IF n < 10 THEN <<Digits[n + 1]>>
  ELSE NatToStr(n \div 10) \o <<Digits[(n % 10) + 1]>>

\* String(n) for an integer n, as a template literal renders it
IntToStr(n) == IF n < 0 THEN <<"-">> \o NatToStr(-n) ELSE NatToStr(n)

RECURSIVE Pow10(_)
Pow10(n) == IF n = 0 THEN 1 ELSE 10 * Pow10(n - 1)

(***************************************************************************)
(* Numbers.                                                                *)
(***************************************************************************)
NaN == [k |-> "nan", m |-> 0, e |-> 0]

Infinity(sign) == [k |-> "inf", m |-> sign, e |-> 0]

\* the decimal m / 10^e, with trailing zeros of the fraction dropped
RECURSIVE Num(_, _)
Num(m, e) ==
  IF e > 0 /\ m % 10 = 0 THEN Num(m \div 10, e - 1)
  ELSE [k |-> "num", m |-> m, e |-> e]

isNaN(x) == x.k = "nan"

\* x > 0 on numbers: false for NaN, true for +Infinity
GreaterThanZero(x) == x.k # "nan" /\ x.m > 0

InfinityLiteral == <<"I", "n", "f", "i", "n", "i", "t", "y">>

\* parseFloat: skips leading white space, reads an optional sign and then the
\* longest prefix that is "Infinity" or a decimal literal (digits, optionally
\* a point and more digits); NaN when there is none.  Exponent parts are not
\* read: no string of the model holds an "e".
ParseFloat(s) ==
  LET t     == TrimStart(s)
      neg   == t # <<>> /\ Head(t) = "-"
      sgn   == IF neg THEN -1 ELSE 1
      u     == IF t # <<>> /\ Head(t) \in {"-", "+"} THEN Tail(t) ELSE t
      ip    == DigitPrefix(u)
      v     == SubSeq(u, Len(ip) + 1, Len(u))
      fp    == IF v # <<>> /\ Head(v) = "." THEN DigitPrefix(Tail(v)) ELSE <<>>
  IN  IF StartsWith(u, InfinityLiteral) THEN Infinity(sgn)
      ELSE IF ip = <<>> /\ fp = <<>> THEN NaN
      ELSE Num(sgn * DigitsToNat(ip \o fp), Len(fp))


(***************************************************************************)
(* Maps (JavaScript Map objects) are functions on their key set.           *)
(***************************************************************************)
EmptyMap == [x \in {} |-> 0]

MapSet(f, key, v) == [x \in (DOMAIN f) \cup {key} |-> IF x = key THEN v ELSE f[x]]

Range(s) == {s[i] : i \in 1..Len(s)}

(***************************************************************************)
(* Instrument registry: loadStockCodes.                                    *)
(***************************************************************************)
\* the default instrument "1.000001"
DefaultCode == <<"1", ".", "0", "0", "0", "0", "0", "1">>

\* mutant of HasStockCode: the test on the code part is left out
HasStockCodeAlways(stockCode) == TRUE

\* if (stockCode): an empty code part drops the entry
HasStockCode(stockCode) == stockCode # <<>>

\* mutant of AcceptsShares: shares >= 0 in place of shares > 0
AcceptsNonNegative(shares) == ~isNaN(shares) /\ shares.m >= 0

\* a share count is stored when it is not NaN and greater than 0
AcceptsShares(shares) == ~isNaN(shares) /\ GreaterThanZero(shares)

\* customCodes.map(trim).filter(non-empty)
TrimmedCodes(customCodes) ==
  SelectSeq([i \in 1..Len(customCodes) |-> Trim(customCodes[i])],
            LAMBDA code : Len(code) > 0)

\* mutant of ParseCodes: the share count is stored outside if (stockCode)
RECURSIVE ParseCodesHoldingAnyCode(_, _)
ParseCodesHoldingAnyCode(codes, acc) ==
  IF codes = <<>> THEN acc
  ELSE
    LET parts     == Split(Head(codes), ":")
        stockCode == Trim(parts[1])
        shares    == ParseFloat(Trim(parts[2]))
        holdings  == IF Len(parts) > 1 /\ AcceptsShares(shares)
                     THEN MapSet(acc.holdingShares, stockCode, shares)
                     ELSE acc.holdingShares
    IN  ParseCodesHoldingAnyCode(Tail(codes),
          [parsedCodes   |-> IF HasStockCode(stockCode)
                             THEN Append(acc.parsedCodes, stockCode)
                             ELSE acc.parsedCodes,
           holdingShares |-> holdings])

\* the for loop over the trimmed entries; acc = [parsedCodes, holdingShares]
RECURSIVE ParseCodes(_, _)
ParseCodes(codes, acc) ==
  IF codes = <<>> THEN acc
  ELSE
    LET parts     == Split(Head(codes), ":")
        stockCode == Trim(parts[1])
        shares    == ParseFloat(Trim(parts[2]))
        holdings  == IF Len(parts) > 1 /\ AcceptsShares(shares)
                     THEN MapSet(acc.holdingShares, stockCode, shares)
                     ELSE acc.holdingShares
    IN  ParseCodes(Tail(codes),
                   IF HasStockCode(stockCode)
                   THEN [parsedCodes   |-> Append(acc.parsedCodes, stockCode),
                         holdingShares |-> holdings]
                   ELSE acc)

\* the registry loadStockCodes leaves: [stockCodeList, holdingShares]
LoadStockCodes(customCodes) ==
  LET codes  == TrimmedCodes(customCodes)
      parsed == ParseCodes(codes, [parsedCodes |-> <<>>, holdingShares |-> EmptyMap])
  IN  IF Len(customCodes) > 0 /\ Len(codes) > 0
      THEN [stockCodeList |-> parsed.parsedCodes,
            holdingShares |-> parsed.holdingShares]
      ELSE [stockCodeList |-> <<DefaultCode>>, holdingShares |-> EmptyMap]

\* the two console.log lines that end loadStockCodes
LoadConsole(loaded) ==
  << <<"codes", loaded.stockCodeList>>, <<"holdings", loaded.holdingShares>> >>


(***************************************************************************)
(* Quote fetcher: decoding of one response (fetchBatchStocks, "end").      *)
(***************************************************************************)
\* Number.prototype.toFixed(decimals) of n / divisor for integers n, rounding
\* the magnitude half up; the sign is kept as JavaScript keeps it
ToFixed(n, divisor, decimals) ==
  LET mag    == IF n < 0 THEN -n ELSE n
      scaled == (2 * mag * Pow10(decimals) + divisor) \div (2 * divisor)
      int    == NatToStr(scaled \div Pow10(decimals))
      frac   == NatToStr(scaled % Pow10(decimals))
      pad    == [i \in 1..(decimals - Len(frac)) |-> "0"]
  IN  (IF n < 0 THEN <<"-">> ELSE <<>>) \o int
        \o (IF decimals > 0 THEN <<".">> \o pad \o frac ELSE <<>>)

\* markets whose fields are scaled by 1000: 116 (HK) and 105, 106, 107 (US)
IsHKorUS(marketCode) == marketCode \in {116, 105, 106, 107}

Divisor(marketCode) == IF IsHKorUS(marketCode) THEN 1000 ELSE 100

\* mutant of Decimals: two decimals for every market
DecimalsTwo(marketCode) == 2

Decimals(marketCode) == IF IsHKorUS(marketCode) THEN 3 ELSE 2

\* mutant of StockCodeOf: the key is the market id without '.' and symbol
StockCodeMarketOnly(stockData) == IntToStr(stockData.f13)

\* mutant of StockCodeOf: the key is the symbol without its market id
StockCodeWithoutMarket(stockData) == stockData.f12

\* the cache key `${marketCode}.${code}`
StockCodeOf(stockData) == IntToStr(stockData.f13) \o <<".">> \o stockData.f12

\* the StockData object built from one record of the response
Quote(stockData, updateTime) ==
  LET marketCode == stockData.f13
      stockCode  == StockCodeOf(stockData)
  IN  [code          |-> stockCode,
       name          |-> IF stockData.f14 # <<>> THEN stockData.f14 ELSE stockCode,
       current       |-> ToFixed(stockData.f2, Divisor(marketCode), Decimals(marketCode)),
       change        |-> ToFixed(stockData.f4, Divisor(marketCode), Decimals(marketCode)),
       changePercent |-> ToFixed(stockData.f3, 100, 2),
       previousClose |-> ToFixed(stockData.f18, Divisor(marketCode), Decimals(marketCode)),
       updateTime    |-> updateTime]

\* a null element of the result collection
Null == [null |-> TRUE]

IsNull(item) == "null" \in DOMAIN item

\* for (const stockData of stocks): the cache after the loop
RECURSIVE StoreQuotes(_, _, _)
StoreQuotes(stocks, data, updateTime) ==
  IF stocks = <<>> THEN data
  ELSE StoreQuotes(Tail(stocks),
                   IF IsNull(Head(stocks)) THEN data
                   ELSE MapSet(data, StockCodeOf(Head(stocks)),
                               Quote(Head(stocks), updateTime)),
                   updateTime)

\* the keys the loop writes
StoredKeys(stocks) ==
  {StockCodeOf(stocks[i]) : i \in {j \in 1..Len(stocks) : ~IsNull(stocks[j])}}

\* JSON.parse(data) throws, or iterating jsonData.data.diff throws
Throws(body) == body.kind \in {"garbage", "baddiff"}

\* jsonData && jsonData.data && jsonData.data.diff
HasDiff(body) == body.kind \in {"diff", "baddiff"}

\* the cache after the "end" handler's try block
ParsedData(body, data, updateTime) ==
  IF body.kind = "diff" THEN StoreQuotes(body.diff, data, updateTime) ELSE data

\* what the "end" handler logs
EndConsole(body) ==
  IF body.kind = "garbage" THEN << <<"parse-error">> >>
  ELSE IF ~HasDiff(body) THEN << <<"invalid">> >>
  ELSE IF Throws(body) THEN << <<"parse-error">> >>
  ELSE [i \in 1..Cardinality({j \in 1..Len(body.diff) : ~IsNull(body.diff[j])})
          |-> <<"parsed">>] \o << <<"batch-ok", Len(body.diff)>> >>

\* the secids query parameter of the batch request
Secids(stockCodeList) == Join(stockCodeList, <<",">>)

(***************************************************************************)
(* Holdings updater: the list updateHoldingShares persists.                *)
(***************************************************************************)
\* mutant of Rewritten: the share count is never written
RewrittenBare(stockCode, shares) == stockCode

\* `${stockCode}:${shares}` when shares > 0, else the bare code
Rewritten(stockCode, shares) ==
  IF shares > 0 THEN stockCode \o <<":">> \o IntToStr(shares) ELSE stockCode

\* mutant of RewriteCodes: only the entries of stockCode are kept
RewriteOnlyTarget(customCodes, stockCode, shares) ==
  LET mine == SelectSeq(customCodes,
                        LAMBDA code : Trim(Split(Trim(code), ":")[1]) = stockCode)
  IN  [i \in 1..Len(mine) |-> Rewritten(stockCode, shares)]

RECURSIVE RewriteCodes(_, _, _)
RewriteCodes(customCodes, stockCode, shares) ==
  IF customCodes = <<>> THEN <<>>
  ELSE
    LET trimmedCode == Trim(Head(customCodes))
        codeOnly    == Trim(Split(trimmedCode, ":")[1])
        rest        == RewriteCodes(Tail(customCodes), stockCode, shares)
    IN  IF trimmedCode = <<>> THEN rest
        ELSE IF codeOnly = stockCode THEN <<Rewritten(stockCode, shares)>> \o rest
        ELSE <<trimmedCode>> \o rest

\* mutant of Found: the code is never recognised as configured
FoundNever(customCodes, stockCode) == FALSE

Found(customCodes, stockCode) ==
  \E i \in 1..Len(customCodes) :
     /\ Trim(customCodes[i]) # <<>>
     /\ Trim(Split(Trim(customCodes[i]), ":")[1]) = stockCode

NewCodes(customCodes, stockCode, shares) ==
  RewriteCodes(customCodes, stockCode, shares)
    \o (IF ~Found(customCodes, stockCode) /\ shares > 0
        THEN <<Rewritten(stockCode, shares)>> ELSE <<>>)


(***************************************************************************)
(* Inputs: configuration entries and response bodies.                      *)
(***************************************************************************)
\* "1.000001"
EntryBare == <<"1", ".", "0", "0", "0", "0", "0", "1">>

\* "1.000001:10"
EntryHeld == <<"1", ".", "0", "0", "0", "0", "0", "1", ":", "1", "0">>

\* "1.000001:-5"
EntryNegative == <<"1", ".", "0", "0", "0", "0", "0", "1", ":", "-", "5">>

\* "1.000001:abc"
EntryNonNumeric == <<"1", ".", "0", "0", "0", "0", "0", "1", ":", "a", "b", "c">>

\* "1.000001:0"
EntryZero == <<"1", ".", "0", "0", "0", "0", "0", "1", ":", "0">>

\* " "
EntryBlank == <<" ">>

\* ":5"
EntryNoCode == <<":", "5">>

\* " 116.00700 : 2 "
EntrySpaced == <<" ", "1", "1", "6", ".", "0", "0", "7", "0", "0", " ", ":", " ", "2", " ">>

\* "1.000001:Infinity"
EntryInfinity == DefaultCode \o <<":">> \o InfinityLiteral

Entries ==
  {EntryBare, EntryHeld, EntryNegative, EntryNonNumeric, EntryZero, EntryBlank,
   EntryNoCode, EntrySpaced, EntryInfinity}

WatchEntries == {EntryHeld, EntryNoCode, EntrySpaced}

SeqsUpTo(S, n) == UNION {[1..k -> S] : k \in 0..n}

\* the values of the stockCodeList setting the registry is loaded from
Configs == SeqsUpTo(Entries, MaxCfg)

\* the values the user gives the setting while the extension runs
WatchLists == SeqsUpTo(WatchEntries, MaxWatch)

\* records of the quote service: the Shanghai index and a Hong Kong instrument
RecordSH ==
  [f12 |-> <<"0", "0", "0", "0", "0", "1">>, f13 |-> 1, f14 |-> <<"S", "H">>,
   f2 |-> 312345, f3 |-> 45, f4 |-> 1402, f18 |-> 310943]

RecordHK ==
  [f12 |-> <<"0", "0", "7", "0", "0">>, f13 |-> 116, f14 |-> <<>>,
   f2 |-> 345600, f3 |-> -123, f4 |-> -4200, f18 |-> 349800]

Items == {Null, RecordSH, RecordHK}

\* response bodies: not JSON; JSON without data.diff; data.diff not iterable;
\* data.diff an array of records
Bodies ==
  {[kind |-> k, diff |-> <<>>] : k \in {"garbage", "nodata", "baddiff"}}
    \cup {[kind |-> "diff", diff |-> d] : d \in SeqsUpTo(Items, MaxDiff)}

\* the market ids of the decoded records: the four scaled by 1000 and two
\* A-share markets
Markets == {0, 1, 105, 106, 107, 116}

\* scaled prices and changes: every small integer and some of several digits
ScaledValues == (-MaxScaled..MaxScaled) \cup {1402, -4200, 312345}

ScaledPercents == {-123, 0, 45}

\* a record of market marketCode whose price fields come from scaled
DecodeRecord(marketCode, scaled, percent) ==
  [f13 |-> marketCode, f12 |-> <<"0", "0", "7", "0", "0">>, f14 |-> <<>>,
   f2 |-> scaled, f3 |-> percent, f4 |-> -scaled, f18 |-> scaled + 1]

DecodeBodies ==
  {[kind |-> "diff", diff |-> <<DecodeRecord(marketCode, scaled, percent)>>] :
     marketCode \in Markets, scaled \in ScaledValues, percent \in ScaledPercents}

\* the argument of a handler that takes none
NoArg == [kind |-> "none"]

\* '' as lastUpdateTime
NoTime == 0

\* share counts the holdings edit passes (parseInt of a validated input)
ShareCounts == -1..MaxShares

TimerHandles == 1..MaxTimers

(***************************************************************************)
(* State.                                                                  *)
(***************************************************************************)
VARIABLES
  config,          \* the stockInvestment.stockCodeList setting
  stockCodeList,   \* StockDataProvider.stockCodeList
  holdingShares,   \* StockDataProvider.holdingShares
  stocksData,      \* StockDataProvider.stocksData (the quote cache)
  isLoading,       \* StockDataProvider.isLoading
  lastUpdateTime,  \* StockDataProvider.lastUpdateTime
  updateInterval,  \* the module-level timer handle, 0 for undefined
  timers,          \* the interval timers the host still fires
  clock,           \* the wall clock, in refresh cycles started so far
  inflight,        \* pending requests, each named by its closure's updateTime
  awaiting,        \* updateHoldingShares calls suspended at their await
  lastEvent,       \* the handler that ran last: [op, cycle, arg]
  console,         \* what that handler logged
  requests,        \* the secids of the requests that handler issued
  fired            \* the change notifications that handler fired

vars ==
  <<config, stockCodeList, holdingShares, stocksData, isLoading, lastUpdateTime,
    updateInterval, timers, clock, inflight, awaiting, lastEvent, console,
    requests, fired>>

\* op names the handler, cycle the refresh cycle it started or completed (0
\* for none), arg the response body or the arguments it was given
Event(op, cycle, arg) == [op |-> op, cycle |-> cycle, arg |-> arg]

(***************************************************************************)
(* fetchAllStockData, with fetchBatchStocks up to the http.get call.       *)
(* list is this.stockCodeList as the caller left it, pre what the handler  *)
(* logged before the call.  Each cycle reads a later time than the cycle   *)
(* before it: the reading of the n-th cycle is written n.                  *)
(***************************************************************************)
\* mutant of FetchAllStockData: a cycle that sends a request sets isLoading
FetchAllStockDataSettingLoading(list, pre) ==
  IF Len(list) = 0
  THEN /\ isLoading' = FALSE
       /\ fired' = 1
       /\ requests' = <<>>
       /\ console' = pre
       /\ UNCHANGED <<lastUpdateTime, stocksData, inflight, clock>>
  ELSE /\ clock < MaxCycles
       /\ clock' = clock + 1
       /\ lastUpdateTime' = clock'
       /\ stocksData' = EmptyMap
       /\ requests' = <<Secids(list)>>
       /\ console' = pre \o << <<"batch-get", Len(list)>> >>
       /\ inflight' = inflight \cup {clock'}
       /\ fired' = 0
       /\ isLoading' = TRUE

FetchAllStockData(list, pre) ==
  IF Len(list) = 0
  THEN /\ isLoading' = FALSE
       /\ fired' = 1
       /\ requests' = <<>>
       /\ console' = pre
       /\ UNCHANGED <<lastUpdateTime, stocksData, inflight, clock>>
  ELSE /\ clock < MaxCycles
       /\ clock' = clock + 1
       /\ lastUpdateTime' = clock'
       /\ stocksData' = EmptyMap
       /\ requests' = <<Secids(list)>>
       /\ console' = pre \o << <<"batch-get", Len(list)>> >>
       /\ inflight' = inflight \cup {clock'}
       /\ fired' = 0
       /\ UNCHANGED isLoading

\* the cycle the handler that just ran started, 0 when it started none
Started == IF clock' = clock THEN 0 ELSE clock'

\* mutant of RefreshWith: refresh() without loadStockCodes()
RefreshWithoutLoad(customCodes, pre) ==
  /\ UNCHANGED <<stockCodeList, holdingShares>>
  /\ FetchAllStockData(stockCodeList, pre)

\* mutant of RefreshWith: loadStockCodes pushes the parsed codes onto the
\* list it already has
RefreshAppending(customCodes, pre) ==
  LET loaded == LoadStockCodes(customCodes)
  IN  /\ stockCodeList' = stockCodeList \o loaded.stockCodeList
      /\ holdingShares' = loaded.holdingShares
      /\ FetchAllStockData(loaded.stockCodeList, pre \o LoadConsole(loaded))

\* refresh(): loadStockCodes then fetchAllStockData
RefreshWith(customCodes, pre) ==
  LET loaded == LoadStockCodes(customCodes)
  IN  /\ stockCodeList' = loaded.stockCodeList
      /\ holdingShares' = loaded.holdingShares
      /\ FetchAllStockData(loaded.stockCodeList, pre \o LoadConsole(loaded))

\* the state the constructor leaves (loadStockCodes, fetchAllStockData) when
\* the setting holds one of customCodeLists
InitWith(customCodeLists) ==
  /\ config \in customCodeLists
  /\ LET loaded == LoadStockCodes(config)
         empty  == Len(loaded.stockCodeList) = 0
     IN  /\ stockCodeList = loaded.stockCodeList
         /\ holdingShares = loaded.holdingShares
         /\ stocksData = EmptyMap
         /\ isLoading = ~empty
         /\ clock = IF empty THEN 0 ELSE 1
         /\ lastUpdateTime = IF empty THEN NoTime ELSE 1
         /\ inflight = IF empty THEN {} ELSE {1}
         /\ requests = IF empty THEN <<>> ELSE <<Secids(loaded.stockCodeList)>>
         /\ console = LoadConsole(loaded)
                        \o (IF empty THEN <<>>
                            ELSE << <<"batch-get", Len(loaded.stockCodeList)>> >>)
         /\ fired = IF empty THEN 1 ELSE 0
  /\ updateInterval = 0
  /\ timers = {}
  /\ awaiting = 0
  /\ lastEvent = Event("constructor", 0, NoArg)

Init == InitWith(WatchLists)

(***************************************************************************)
(* Refresh scheduler.                                                      *)
(***************************************************************************)
\* the handles setInterval may return: a new Timeout object is neither a live
\* timer nor the object updateInterval still refers to
FreeHandles(live, handle) == TimerHandles \ (live \cup {handle})

NewHandle(live, handle) ==
  CHOOSE h \in FreeHandles(live, handle) : \A g \in FreeHandles(live, handle) : h <= g

\* mutant of ClearedOnStart: startAutoUpdate without its clearInterval
ClearedNothing(live, handle) == live

\* the timers left live by startAutoUpdate's clearInterval(updateInterval)
ClearedOnStart(live, handle) == IF handle # 0 THEN live \ {handle} ELSE live

StartAutoUpdate ==
  /\ FreeHandles(ClearedOnStart(timers, updateInterval), updateInterval) # {}
  /\ LET live == ClearedOnStart(timers, updateInterval)
     IN  /\ updateInterval' = NewHandle(live, updateInterval)
         /\ timers' = live \cup {NewHandle(live, updateInterval)}
  /\ lastEvent' = Event("startAutoUpdate", 0, NoArg)
  /\ console' = <<>> /\ requests' = <<>> /\ fired' = 0
  /\ UNCHANGED <<config, stockCodeList, holdingShares, stocksData, isLoading,
                 lastUpdateTime, clock, inflight, awaiting>>

\* mutant of ClearTimer: stopping also empties the quote cache
ClearTimerAndCache(op) ==
  /\ IF updateInterval # 0
     THEN /\ timers' = timers \ {updateInterval}
          /\ updateInterval' = 0
     ELSE UNCHANGED <<timers, updateInterval>>
  /\ stocksData' = EmptyMap
  /\ lastEvent' = Event(op, 0, NoArg)
  /\ console' = <<>> /\ requests' = <<>> /\ fired' = 0
  /\ UNCHANGED <<config, stockCodeList, holdingShares, isLoading,
                 lastUpdateTime, clock, inflight, awaiting>>

\* clearInterval(updateInterval); updateInterval = undefined
ClearTimer(op) ==
  /\ IF updateInterval # 0
     THEN /\ timers' = timers \ {updateInterval}
          /\ updateInterval' = 0
     ELSE UNCHANGED <<timers, updateInterval>>
  /\ lastEvent' = Event(op, 0, NoArg)
  /\ console' = <<>> /\ requests' = <<>> /\ fired' = 0
  /\ UNCHANGED <<config, stockCodeList, holdingShares, stocksData, isLoading,
                 lastUpdateTime, clock, inflight, awaiting>>

StopAutoUpdate == ClearTimer("stopAutoUpdate")

Deactivate == ClearTimer("deactivate")

\* the setInterval callback of a live timer
Tick(h) ==
  /\ h \in timers
  /\ FetchAllStockData(stockCodeList, <<>>)
  /\ lastEvent' = Event("tick", Started, NoArg)
  /\ UNCHANGED <<config, stockCodeList, holdingShares, updateInterval, timers, awaiting>>

\* the stockView.refresh command
Refresh ==
  /\ RefreshWith(config, <<>>)
  /\ lastEvent' = Event("refresh", Started, NoArg)
  /\ UNCHANGED <<config, updateInterval, timers, awaiting>>

\* the user edits the setting; the onDidChangeConfiguration listener runs
ConfigChange(customCodes) ==
  /\ customCodes # config
  /\ config' = customCodes
  /\ RefreshWith(customCodes, << <<"config-changed">> >>)
  /\ lastEvent' = Event("configChange", Started, NoArg)
  /\ UNCHANGED <<updateInterval, timers, awaiting>>

(***************************************************************************)
(* Holdings updater.                                                       *)
(***************************************************************************)
\* updateHoldingShares up to its await: config.update persists the rewritten
\* list, and the configuration listener runs when the setting changed
UpdateHoldingShares(stockCode, shares) ==
  /\ awaiting < MaxAwait
  /\ awaiting' = awaiting + 1
  /\ config' = NewCodes(config, stockCode, shares)
  /\ IF config' # config
     THEN RefreshWith(config', << <<"config-changed">> >>)
     ELSE /\ console' = <<>> /\ requests' = <<>> /\ fired' = 0
          /\ UNCHANGED <<stockCodeList, holdingShares, stocksData, isLoading,
                         lastUpdateTime, clock, inflight>>
  /\ lastEvent' = Event("updateHoldingShares", Started,
                        [kind |-> "edit", stockCode |-> stockCode, shares |-> shares])
  /\ UNCHANGED <<updateInterval, timers>>

\* updateHoldingShares after its await: this.refresh()
ResumeUpdate ==
  /\ awaiting > 0
  /\ awaiting' = awaiting - 1
  /\ RefreshWith(config, <<>>)
  /\ lastEvent' = Event("resumeUpdate", Started, NoArg)
  /\ UNCHANGED <<config, updateInterval, timers>>

(***************************************************************************)
(* Quote fetcher: the response handlers of fetchBatchStocks.               *)
(***************************************************************************)
\* mutant of ResponseEnd: callback() inside the try block, so that a body
\* that throws leaves the cycle without its completion step
ResponseEndNoCallbackOnThrow(updateTime, body) ==
  /\ updateTime \in inflight
  /\ inflight' = inflight \ {updateTime}
  /\ stocksData' = ParsedData(body, stocksData, updateTime)
  /\ isLoading' = IF Throws(body) THEN isLoading ELSE FALSE
  /\ fired' = IF Throws(body) THEN 0 ELSE 1
  /\ console' = EndConsole(body)
  /\ requests' = <<>>
  /\ lastEvent' = Event("end", updateTime, body)
  /\ UNCHANGED <<config, stockCodeList, holdingShares, lastUpdateTime,
                 updateInterval, timers, clock, awaiting>>

\* res.on("end") of the request whose closure holds updateTime: parse and
\* store inside try/catch, then callback()
ResponseEnd(updateTime, body) ==
  /\ updateTime \in inflight
  /\ inflight' = inflight \ {updateTime}
  /\ stocksData' = ParsedData(body, stocksData, updateTime)
  /\ isLoading' = FALSE
  /\ fired' = 1
  /\ console' = EndConsole(body)
  /\ requests' = <<>>
  /\ lastEvent' = Event("end", updateTime, body)
  /\ UNCHANGED <<config, stockCodeList, holdingShares, lastUpdateTime,
                 updateInterval, timers, clock, awaiting>>

\* .on("error") of that request: log, then callback()
RequestError(updateTime) ==
  /\ updateTime \in inflight
  /\ inflight' = inflight \ {updateTime}
  /\ isLoading' = FALSE
  /\ fired' = 1
  /\ console' = << <<"get-failed">> >>
  /\ requests' = <<>>
  /\ lastEvent' = Event("error", updateTime, NoArg)
  /\ UNCHANGED <<config, stockCodeList, holdingShares, stocksData, lastUpdateTime,
                 updateInterval, timers, clock, awaiting>>

(***************************************************************************)
(* View-model builder: getRootItems and getDetailItems.                    *)
(* Arithmetic is exact decimal arithmetic; binary rounding of products is  *)
(* not modelled.                                                           *)
(***************************************************************************)
\* mutant of Times: the share count is left out of the product
TimesOne(a, b) == a

\* a * b on numbers
Times(a, b) ==
  IF isNaN(a) \/ isNaN(b) THEN NaN
  ELSE IF a.k = "inf" \/ b.k = "inf"
       THEN IF a.m = 0 \/ b.m = 0 THEN NaN
            ELSE Infinity(IF (a.m > 0) = (b.m > 0) THEN 1 ELSE -1)
  ELSE Num(a.m * b.m, a.e + b.e)

\* a + b on numbers
Plus(a, b) ==
  IF isNaN(a) \/ isNaN(b) THEN NaN
  ELSE IF a.k = "inf" /\ b.k = "inf" THEN (IF a.m = b.m THEN a ELSE NaN)
  ELSE IF a.k = "inf" THEN a
  ELSE IF b.k = "inf" THEN b
  ELSE LET e == IF a.e > b.e THEN a.e ELSE b.e
       IN  Num(a.m * Pow10(e - a.e) + b.m * Pow10(e - b.e), e)

\* x >= 0 on numbers: false for NaN
AtLeastZero(x) == x.k # "nan" /\ x.m >= 0

\* x.toFixed(decimals) on numbers
NumToFixed(x, decimals) ==
  IF isNaN(x) THEN <<"N", "a", "N">>
  ELSE IF x.k = "inf" THEN (IF x.m < 0 THEN <<"-">> ELSE <<>>) \o InfinityLiteral
  ELSE ToFixed(x.m, Pow10(x.e), decimals)

\* `${x}` on numbers
NumToStr(x) ==
  IF isNaN(x) THEN <<"N", "a", "N">>
  ELSE IF x.k = "inf" THEN (IF x.m < 0 THEN <<"-">> ELSE <<>>) \o InfinityLiteral
  ELSE ToFixed(x.m, Pow10(x.e), x.e)

\* mutant of Signed: no sign is written in front of non-negative amounts
Unsigned(x) == NumToFixed(x, 2)

\* a sign is written in front of non-negative amounts only
Signed(x) == (IF AtLeastZero(x) THEN <<"+">> ELSE <<>>) \o NumToFixed(x, 2)

\* a row without stockCode
Undefined == <<"undefined">>

StockItem(label, collapsibleState, description, iconPath, stockCode, isRoot) ==
  [label |-> label, collapsibleState |-> collapsibleState,
   description |-> description, iconPath |-> iconPath, stockCode |-> stockCode,
   isRoot |-> isRoot,
   contextValue |-> IF isRoot /\ stockCode # Undefined /\ stockCode # <<>>
                    THEN "stockRoot" ELSE "none"]

\* the row shown while isLoading
LoadingItem ==
  StockItem(<<"SSE Composite">>, "Collapsed", <<"loading...">>,
            <<"loading~spin">>, DefaultCode, TRUE)

\* mutant of FailedItem: the failed row is built without its stockCode
FailedItemWithoutCode(code) ==
  StockItem(code, "Collapsed", <<"load failed">>, <<"error">>, Undefined, TRUE)

\* the row of a code that has no quote in the cache
FailedItem(code) ==
  StockItem(code, "Collapsed", <<"load failed">>, <<"error">>, code, TRUE)

Arrow(change) == IF AtLeastZero(ParseFloat(change)) THEN "up" ELSE "down"

\* the market of a code: "TypeError" when stockCode.startsWith is called on
\* the undefined second part of a code without '.'
MarketOf(code) ==
  LET parts      == Split(code, ".")
      marketCode == parts[1]
  IN  IF marketCode = <<"1", "1", "6">> THEN "HK"
      ELSE IF marketCode \in {<<"1", "0", "5">>, <<"1", "0", "6">>, <<"1", "0", "7">>}
           THEN "US"
      ELSE IF marketCode = <<"0">>
           THEN IF Len(parts) < 2 THEN "TypeError"
                ELSE IF StartsWith(parts[2], <<"3">>) THEN "ChiNext" ELSE "plain"
      ELSE IF marketCode = <<"1">>
           THEN IF Len(parts) < 2 THEN "TypeError"
                ELSE IF StartsWith(parts[2], <<"6", "8", "8">>) THEN "STAR" ELSE "plain"
      ELSE "plain"

MarketTag(market) ==
  CASE market = "HK"      -> <<" ", "[HK]">>
    [] market = "US"      -> <<" ", "[US]">>
    [] market = "ChiNext" -> <<" ", "[ChiNext]">>
    [] market = "STAR"    -> <<" ", "[STAR]">>
    [] OTHER              -> <<>>

IconColor(market) ==
  CASE market = "HK"      -> "charts.purple"
    [] market = "US"      -> "charts.blue"
    [] market = "ChiNext" -> "charts.orange"
    [] market = "STAR"    -> "charts.yellow"
    [] OTHER              -> "charts.green"

\* the row of a code that has a quote
QuoteItem(code, stockData) ==
  StockItem(stockData.name, "Collapsed",
            stockData.current \o <<" ", Arrow(stockData.change), " ">>
              \o stockData.changePercent \o <<"%">> \o MarketTag(MarketOf(code)),
            <<"circle-filled", IconColor(MarketOf(code))>>, code, TRUE)

\* mutant of CodeItems: a code without a quote gets no row
CodeItemsSkippingFailed(codes) ==
  LET cached == SelectSeq(codes, LAMBDA c : c \in DOMAIN stocksData)
  IN  [i \in 1..Len(cached) |-> QuoteItem(cached[i], stocksData[cached[i]])]

\* the rows of the for loop over stockCodeList
RECURSIVE CodeItems(_)
CodeItems(codes) ==
  IF codes = <<>> THEN <<>>
  ELSE <<IF Head(codes) \in DOMAIN stocksData
         THEN QuoteItem(Head(codes), stocksData[Head(codes)])
         ELSE FailedItem(Head(codes))>> \o CodeItems(Tail(codes))

\* the loop throws on a code that has a quote and whose market test throws
RootItemsThrow ==
  /\ ~isLoading
  /\ \E i \in 1..Len(stockCodeList) :
       /\ stockCodeList[i] \in DOMAIN stocksData
       /\ MarketOf(stockCodeList[i]) = "TypeError"

\* the held codes that count: those with a quote (and shares > 0)
HeldWithQuote ==
  {code \in DOMAIN holdingShares :
     code \in DOMAIN stocksData /\ GreaterThanZero(holdingShares[code])}

RECURSIVE SumProfitLoss(_)
SumProfitLoss(codes) ==
  IF codes = {} THEN Num(0, 0)
  ELSE LET code == CHOOSE c \in codes : TRUE
       IN  Plus(Times(ParseFloat(stocksData[code].change), holdingShares[code]),
                SumProfitLoss(codes \ {code}))

TotalProfitLoss == SumProfitLoss(HeldWithQuote)

ProfitLossItem(profitLoss) ==
  StockItem(<<"profit/loss today">>, "None", Signed(profitLoss),
            <<IF AtLeastZero(profitLoss) THEN "arrow-up" ELSE "arrow-down",
              IF AtLeastZero(profitLoss) THEN "charts.red" ELSE "charts.green">>,
            Undefined, FALSE)

UpdateTimeItem ==
  StockItem(<<"update time">>, "None", lastUpdateTime, <<"clock">>, Undefined, FALSE)

\* getRootItems(), when it does not throw
RootItems ==
  IF isLoading THEN <<LoadingItem>>
  ELSE CodeItems(stockCodeList)
         \o (IF HeldWithQuote # {} THEN <<ProfitLossItem(TotalProfitLoss)>> ELSE <<>>)
         \o (IF lastUpdateTime # NoTime THEN <<UpdateTimeItem>> ELSE <<>>)

\* getDetailItems(stockCode)
DetailItems(stockCode) ==
  IF stockCode \notin DOMAIN stocksData THEN <<>>
  ELSE
    LET stockData == stocksData[stockCode]
        changeNum == ParseFloat(stockData.change)
        isUp      == AtLeastZero(changeNum)
        held      == /\ stockCode \in DOMAIN holdingShares
                     /\ ~isNaN(holdingShares[stockCode])
                     /\ holdingShares[stockCode].m # 0
        shares    == holdingShares[stockCode]
    IN  << StockItem(<<"previous close">>, "None", stockData.previousClose,
                     <<"symbol-number", "charts.blue">>, Undefined, FALSE),
           StockItem(<<"change">>, "None",
                     <<Arrow(stockData.change), " ">> \o stockData.change,
                     <<IF isUp THEN "arrow-up" ELSE "arrow-down",
                       IF isUp THEN "charts.red" ELSE "charts.green">>,
                     Undefined, FALSE) >>
        \o (IF held
            THEN << StockItem(<<"shares held">>, "None", NumToStr(shares),
                              <<"database", "charts.purple">>, Undefined, FALSE),
                    ProfitLossItem(Times(changeNum, shares)) >>
            ELSE <<>>)

\* the codes a holdings edit may name: those of the root rows, and the
\* default code of the loading placeholder
EditableCodes == Range(stockCodeList) \cup {DefaultCode}

Next ==
  \/ StartAutoUpdate
  \/ StopAutoUpdate
  \/ Deactivate
  \/ \E h \in TimerHandles : Tick(h)
  \/ Refresh
  \/ \E customCodes \in WatchLists : ConfigChange(customCodes)
  \/ \E stockCode \in EditableCodes, shares \in ShareCounts :
       UpdateHoldingShares(stockCode, shares)
  \/ ResumeUpdate
  \/ \E updateTime \in inflight, body \in Bodies : ResponseEnd(updateTime, body)
  \/ \E updateTime \in inflight : RequestError(updateTime)

Spec == Init /\ [][Next]_vars

\* the registry alone: the constructor on any configuration, then manual
\* refreshes and holdings edits
RegistryInit == InitWith(Configs)

RegistryNext ==
  \/ Refresh
  \/ \E stockCode \in EditableCodes, shares \in ShareCounts :
       UpdateHoldingShares(stockCode, shares)
  \/ ResumeUpdate

RegistrySpec == RegistryInit /\ [][RegistryNext]_vars

\* the decoder alone: the constructor on the empty setting, then the response
\* of its cycle, carrying one record of any market
DecodeInit == InitWith({<<>>})

DecodeNext ==
  \E updateTime \in inflight, body \in DecodeBodies : ResponseEnd(updateTime, body)

DecodeSpec == DecodeInit /\ [][DecodeNext]_vars

\* the market tags alone: the constructor on settings that name codes
\* without a '.', then manual refreshes and responses, among them records
\* whose symbol is empty
DotlessEntries == {<<"1">>, <<"0">>, EntryBare}

DotlessLists == SeqsUpTo(DotlessEntries, MaxCfg)

RecordNoSymbol(marketCode) ==
  [f13 |-> marketCode, f12 |-> <<>>, f14 |-> <<"none">>,
   f2 |-> 100, f3 |-> 0, f4 |-> 0, f18 |-> 100]

MarketBodies ==
  {[kind |-> "diff", diff |-> <<stockData>>] :
     stockData \in {RecordSH, RecordNoSymbol(0), RecordNoSymbol(1)}}

MarketInit == InitWith(DotlessLists)

MarketNext ==
  \/ Refresh
  \/ \E updateTime \in inflight, body \in MarketBodies : ResponseEnd(updateTime, body)

MarketSpec == MarketInit /\ [][MarketNext]_vars

(***************************************************************************)
(* The single-instrument provider (src/src/extension.ts).  Its fields are  *)
(* held by the variables of the same role: isLoading by isLoading, and     *)
(* stockData by stocksData, null being the empty map and an object being   *)
(* stored under the code of its one instrument.  It has no registry: the   *)
(* setting, the code list, the holdings and lastUpdateTime stay as the     *)
(* initial state has them.                                                 *)
(***************************************************************************)
\* f58 (name), f43 (price), f169 (change), f170 (percentage)
SingleRecords ==
  {[f58 |-> name, f43 |-> 312345, f169 |-> change, f170 |-> 45] :
     name \in {<<>>, <<"SH">>}, change \in {1402, -5}}

\* response bodies: not JSON; JSON without a data object; JSON with one
SingleBodies ==
  {[kind |-> k] : k \in {"garbage", "nodata"}}
    \cup {[kind |-> "data", data |-> stockData] : stockData \in SingleRecords}

\* the object the "end" handler assigns to this.stockData
SingleQuote(stockData, updateTime) ==
  [name          |-> IF stockData.f58 # <<>> THEN stockData.f58
                     ELSE <<"SSE Composite">>,
   current       |-> ToFixed(stockData.f43, 100, 2),
   change        |-> ToFixed(stockData.f169, 100, 2),
   changePercent |-> ToFixed(stockData.f170, 100, 2),
   updateTime    |-> updateTime]

\* the constructor: fields initialised, then fetchStockData()
SingleInit ==
  /\ config = <<>>
  /\ stockCodeList = <<DefaultCode>>
  /\ holdingShares = EmptyMap
  /\ lastUpdateTime = NoTime
  /\ awaiting = 0
  /\ stocksData = EmptyMap
  /\ isLoading = TRUE
  /\ clock = 1
  /\ inflight = {1}
  /\ requests = <<DefaultCode>>
  /\ console = <<>>
  /\ fired = 0
  /\ updateInterval = 0
  /\ timers = {}
  /\ lastEvent = Event("constructor", 0, NoArg)

\* fetchStockData up to the http.get call: the request is sent, no field is
\* written
SingleFetchStockData(op) ==
  /\ clock < MaxCycles
  /\ clock' = clock + 1
  /\ inflight' = inflight \cup {clock'}
  /\ requests' = <<DefaultCode>>
  /\ console' = <<>>
  /\ fired' = 0
  /\ lastEvent' = Event(op, clock', NoArg)
  /\ UNCHANGED <<config, stockCodeList, holdingShares, stocksData, isLoading,
                 lastUpdateTime, updateInterval, timers, awaiting>>

\* the stockView.refresh command
SingleRefresh == SingleFetchStockData("refresh")

\* startAutoUpdate, the same function as the multi-instrument provider's
SingleStartAutoUpdate == StartAutoUpdate

\* the setInterval callback
SingleTick(h) == h \in timers /\ SingleFetchStockData("tick")

\* res.on("end") of the request named request; now is the time it reads
SingleResponseEnd(request, body, now) ==
  /\ request \in inflight
  /\ inflight' = inflight \ {request}
  /\ CASE body.kind = "garbage" ->
            /\ isLoading' = FALSE
            /\ stocksData' = EmptyMap
            /\ fired' = 1
            /\ console' = << <<"data">>, <<"parse-error">> >>
       [] body.kind = "nodata" ->
            /\ console' = << <<"data">> >>
            /\ fired' = 0
            /\ UNCHANGED <<isLoading, stocksData>>
       [] body.kind = "data" ->
            /\ isLoading' = FALSE
            /\ stocksData' = MapSet(EmptyMap, DefaultCode, SingleQuote(body.data, now))
            /\ fired' = 1
            /\ console' = << <<"data">> >>
  /\ requests' = <<>>
  /\ lastEvent' = Event("end", request, body)
  /\ UNCHANGED <<config, stockCodeList, holdingShares, lastUpdateTime,
                 updateInterval, timers, clock, awaiting>>

\* .on("error") of that request
SingleRequestError(request) ==
  /\ request \in inflight
  /\ inflight' = inflight \ {request}
  /\ isLoading' = FALSE
  /\ stocksData' = EmptyMap
  /\ fired' = 1
  /\ console' = << <<"get-failed">> >>
  /\ requests' = <<>>
  /\ lastEvent' = Event("error", request, NoArg)
  /\ UNCHANGED <<config, stockCodeList, holdingShares, lastUpdateTime,
                 updateInterval, timers, clock, awaiting>>

\* getRootItems of the single-instrument provider: the icon and the
\* description of its one row
SingleRootItems ==
  IF isLoading
  THEN << [description |-> <<"loading...">>, iconPath |-> "loading~spin"] >>
  ELSE IF stocksData = EmptyMap
  THEN << [description |-> <<"load failed">>, iconPath |-> "error"] >>
  ELSE << [description |-> stocksData[DefaultCode].current
                             \o <<" ", Arrow(stocksData[DefaultCode].change)>>
                             \o stocksData[DefaultCode].changePercent \o <<"%">>,
           iconPath    |-> "graph-line"] >>

SingleNext ==
  \/ SingleRefresh
  \/ SingleStartAutoUpdate
  \/ \E h \in TimerHandles : SingleTick(h)
  \/ \E request \in inflight, body \in SingleBodies :
       SingleResponseEnd(request, body, clock)
  \/ \E request \in inflight : SingleRequestError(request)

SingleSpec == SingleInit /\ [][SingleNext]_vars

(***************************************************************************)
(* Properties.                                                             *)
(*                                                                         *)
(* The configuration grammar as the specification words it, used to state  *)
(* the registry properties: the entry is trimmed and cut at its first ':'. *)
(***************************************************************************)
CutAt(entry) == IndexOf(Trim(entry), ":")

LeftPart(entry) ==
  Trim(IF CutAt(entry) = 0 THEN Trim(entry)
       ELSE SubSeq(Trim(entry), 1, CutAt(entry) - 1))

HasRightPart(entry) == CutAt(entry) # 0

RightValue(entry) ==
  ParseFloat(SubSeq(Trim(entry), CutAt(entry) + 1, Len(Trim(entry))))

\* the entries with a share count greater than 0
Positive(customCodes) ==
  {i \in 1..Len(customCodes) :
     HasRightPart(customCodes[i]) /\ GreaterThanZero(RightValue(customCodes[i]))}

\* the entries with a code part
Coded(customCodes) ==
  {i \in 1..Len(customCodes) : LeftPart(customCodes[i]) # <<>>}

\* the code parts of the entries that have one, in configuration order
ExpectedCodes(customCodes) ==
  SelectSeq([i \in 1..Len(customCodes) |-> LeftPart(customCodes[i])],
            LAMBDA code : code # <<>>)

Last(S) == CHOOSE i \in S : \A j \in S : j <= i

CodeHK == <<"1", "1", "6", ".", "0", "0", "7", "0", "0">>

\* a completion that brought no result collection
FailedCompletion(e) ==
  e.op = "error" \/ (e.op = "end" /\ e.arg.kind # "diff")

\* the response holds a record whose market id and symbol spell code
Carries(body, code) ==
  /\ body.kind = "diff"
  /\ \E i \in 1..Len(body.diff) :
       /\ ~IsNull(body.diff[i])
       /\ IntToStr(body.diff[i].f13) \o <<".">> \o body.diff[i].f12 = code

\* the handler logged a registry reload that produced list
ReloadLogged(log, list) ==
  \E i \in 1..Len(log) : log[i][1] = "codes" /\ log[i][2] = list

\* the registry is the one loadStockCodes builds from the setting
RegistryLoaded(customCodes, list, held) ==
  /\ list = LoadStockCodes(customCodes).stockCodeList
  /\ held = LoadStockCodes(customCodes).holdingShares

\* the fetch step ran on list: one batch request when list is not empty
FetchStepRan(sent, list) ==
  sent = IF list = <<>> THEN <<>> ELSE <<Secids(list)>>

(***************************************************************************)
(* C1.  After a cycle ended in failure the cache holds no quote produced   *)
(* by an earlier cycle, also when cycles overlap.  (The code breaks this:  *)
(* the cache is cleared when a cycle starts, so the response of an older   *)
(* cycle that arrives afterwards stays in the cache when the newer cycle   *)
(* fails.)                                                                 *)
(***************************************************************************)
C1_FailedCycleLeavesNoEarlierQuote ==
  FailedCompletion(lastEvent) =>
    \A code \in DOMAIN stocksData : stocksData[code].updateTime >= lastEvent.cycle

(***************************************************************************)
(* C2.  Every cycle whose request finishes (an "end" with any body, or an  *)
(* "error") runs its completion step once: the request leaves the pending  *)
(* set, isLoading is cleared and exactly one change notification is fired; *)
(* a body that makes the parsing throw is caught and logged.               *)
(***************************************************************************)
C2_CompletionStepOnce ==
  [][lastEvent'.op \in {"end", "error"} =>
       /\ inflight \ inflight' = {lastEvent'.cycle}
       /\ inflight' \subseteq inflight
       /\ isLoading' = FALSE
       /\ fired' = 1
       /\ (lastEvent'.op = "end" /\ Throws(lastEvent'.arg)
             => console' = << <<"parse-error">> >>)]_vars

C2_Witness ==
  /\ lastEvent.op = "end"
  /\ lastEvent.arg.kind = "baddiff"
  /\ fired = 1
  /\ ~isLoading

(***************************************************************************)
(* C3, as claimed.  A timer tick, a manual refresh and a configuration     *)
(* change each reload the registry from the setting and then run the fetch *)
(* step on the reloaded code list.                                         *)
(***************************************************************************)
C3_AllTriggersReload ==
  [][lastEvent'.op \in {"tick", "refresh", "configChange"} =>
       /\ ReloadLogged(console', stockCodeList')
       /\ RegistryLoaded(config', stockCodeList', holdingShares')
       /\ FetchStepRan(requests', stockCodeList')]_vars

(***************************************************************************)
(* C3, amended.  A manual refresh and a configuration change reload the    *)
(* registry from the setting and then run the fetch step on the reloaded   *)
(* code list; a timer tick does not reload: it leaves the registry as it   *)
(* is and runs the fetch step on the code list as last loaded.             *)
(***************************************************************************)
C3_RefreshReloadsTickDoesNot ==
  [][/\ lastEvent'.op \in {"refresh", "configChange"} =>
          /\ ReloadLogged(console', stockCodeList')
          /\ RegistryLoaded(config', stockCodeList', holdingShares')
          /\ FetchStepRan(requests', stockCodeList')
     /\ lastEvent'.op = "tick" =>
          /\ ~ReloadLogged(console', stockCodeList')
          /\ UNCHANGED <<stockCodeList, holdingShares>>
          /\ FetchStepRan(requests', stockCodeList)]_vars

C3_Witness ==
  /\ lastEvent.op = "tick"
  /\ Len(stockCodeList) = 2
  /\ requests = <<Secids(stockCodeList)>>
  /\ console = << <<"batch-get", 2>> >>

(***************************************************************************)
(* C4.  After a registry reload the code list is not empty: when no entry  *)
(* of the setting has a code part, it is the single default code.  (The    *)
(* code breaks this for a setting such as [":5"], whose entries are not    *)
(* blank and have no code part: the list is left empty.)                   *)
(***************************************************************************)
C4_CodeListNeverEmpty ==
  /\ stockCodeList # <<>>
  /\ ExpectedCodes(config) = <<>> => stockCodeList = <<DefaultCode>>

(***************************************************************************)
(* C5.  Every refresh cycle issues exactly one request, which carries the  *)
(* codes of the current code list joined by commas.  (The code breaks this *)
(* when the code list is empty, see C4: the cycle issues no request.)      *)
(***************************************************************************)
C5_OneRequestPerCycle ==
  [][lastEvent'.op \in {"tick", "refresh", "configChange", "resumeUpdate"} =>
       /\ Len(requests') = 1
       /\ requests'[1] = Join(stockCodeList', <<",">>)]_vars

(***************************************************************************)
(* C6.  At most one interval timer is live, and it is the one the          *)
(* module-level handle updateInterval refers to.                           *)
(***************************************************************************)
C6_AtMostOneTimer ==
  /\ Cardinality(timers) <= 1
  /\ timers \subseteq {updateInterval}

C6_Witness ==
  /\ lastEvent.op = "startAutoUpdate"
  /\ updateInterval = 2
  /\ timers = {2}

(***************************************************************************)
(* C7.  stopAutoUpdate and deactivate clear the timer handle and leave the *)
(* setting, the registry, the cache, the loading flag, the last update     *)
(* time and the pending requests as they are; a timer tick happens only    *)
(* while the handle is set.                                                *)
(***************************************************************************)
C7_StopOnlyClearsTimer ==
  [][/\ lastEvent'.op \in {"stopAutoUpdate", "deactivate"} =>
          /\ updateInterval' = 0
          /\ timers' = {}
          /\ UNCHANGED <<config, stockCodeList, holdingShares, stocksData,
                         isLoading, lastUpdateTime, inflight, awaiting>>
     /\ lastEvent'.op = "tick" => updateInterval # 0]_vars

C7_Witness ==
  /\ lastEvent.op = "stopAutoUpdate"
  /\ updateInterval = 0
  /\ timers = {}
  /\ stocksData # EmptyMap
  /\ DOMAIN holdingShares # {}

(***************************************************************************)
(* C8.  A failed completion leaves the timer as it is, and whenever a      *)
(* response carries a record for a code of the code list, that code has a  *)
(* quote in the cache as the handler returns and its root row is not the   *)
(* failed row.                                                             *)
(***************************************************************************)
C8_SelfHeals ==
  /\ [][FailedCompletion(lastEvent') => UNCHANGED <<updateInterval, timers>>]_vars
  /\ [](lastEvent.op = "end" =>
          \A i \in 1..Len(stockCodeList) :
             Carries(lastEvent.arg, stockCodeList[i]) =>
               /\ stockCodeList[i] \in DOMAIN stocksData
               /\ ~RootItemsThrow
               /\ RootItems[i] # FailedItem(stockCodeList[i]))

C8_Witness ==
  /\ lastEvent.op = "end"
  /\ lastEvent.cycle > 1
  /\ timers # {}
  /\ Carries(lastEvent.arg, stockCodeList[1])
  /\ RootItems[1] = QuoteItem(stockCodeList[1], stocksData[stockCodeList[1]])

(***************************************************************************)
(* C9.  Every share count in the holdings map is greater than 0 and is the *)
(* share count of an entry of the setting for that code; after a holdings  *)
(* edit that asks for 0 shares the code has no entry in the map.           *)
(***************************************************************************)
C9_HoldingsPositive ==
  /\ \A code \in DOMAIN holdingShares :
       /\ GreaterThanZero(holdingShares[code])
       /\ \E i \in Positive(config) :
            /\ LeftPart(config[i]) = code
            /\ RightValue(config[i]) = holdingShares[code]
  /\ (lastEvent.op = "updateHoldingShares" /\ lastEvent.arg.shares <= 0)
       => lastEvent.arg.stockCode \notin DOMAIN holdingShares

C9_Witness ==
  /\ lastEvent.op = "updateHoldingShares"
  /\ lastEvent.arg.shares = 0
  /\ lastEvent.cycle # 0
  /\ lastEvent.arg.stockCode \in Range(stockCodeList)
  /\ lastEvent.arg.stockCode \notin DOMAIN holdingShares
  /\ DOMAIN holdingShares # {}

(***************************************************************************)
(* C10, as claimed.  An entry gives its trimmed left part to the code list *)
(* iff that part is not empty, and gives a holding iff it has a right part *)
(* that parses to a number greater than 0.                                 *)
(***************************************************************************)
C10_HoldingIffPositiveRightPart ==
  /\ ExpectedCodes(config) # <<>> => stockCodeList = ExpectedCodes(config)
  /\ DOMAIN holdingShares = {LeftPart(config[i]) : i \in Positive(config)}

(***************************************************************************)
(* C10, amended.  An entry gives its trimmed left part to the code list    *)
(* iff that part is not empty; it gives a holding iff that part is not     *)
(* empty and it has a right part that parses to a number greater than 0    *)
(* (the last such entry of a code decides its share count); an entry with  *)
(* a code part and a negative, zero or non-numeric right part gives its    *)
(* code and no holding; a blank entry gives nothing.                       *)
(***************************************************************************)
C10_EntryContributions ==
  /\ ExpectedCodes(config) # <<>> => stockCodeList = ExpectedCodes(config)
  /\ ExpectedCodes(config) = <<>> => stockCodeList \in {<<>>, <<DefaultCode>>}
  /\ DOMAIN holdingShares =
       {LeftPart(config[i]) : i \in Positive(config) \cap Coded(config)}
  /\ \A code \in DOMAIN holdingShares :
       holdingShares[code] =
         RightValue(config[Last({i \in Positive(config) : LeftPart(config[i]) = code})])

C10_Witness ==
  /\ lastEvent.op = "refresh"
  /\ config = <<EntryNegative, EntrySpaced>>
  /\ stockCodeList = <<DefaultCode, CodeHK>>
  /\ DOMAIN holdingShares = {CodeHK}
  /\ holdingShares[CodeHK] = Num(2, 0)

\* the entries of customCodes whose code part is stockCode
EntriesFor(customCodes, stockCode) ==
  {i \in 1..Len(customCodes) : LeftPart(customCodes[i]) = stockCode}

(***************************************************************************)
(* C11.  As updateHoldingShares(X, shares) has persisted its list and the  *)
(* registry was reloaded from it: with shares = 0 every entry of the       *)
(* setting for X is the bare X, X has no holding and X is in the code list *)
(* if it was before; with shares = n > 0 the setting has an entry for X,   *)
(* every entry for X is "X:n" and the holdings map maps X to n.            *)
(***************************************************************************)
C11_UpdateConsistent ==
  [][lastEvent'.op = "updateHoldingShares" =>
       LET X    == lastEvent'.arg.stockCode
           n    == lastEvent'.arg.shares
           mine == EntriesFor(config', X)
       IN  /\ RegistryLoaded(config', stockCodeList', holdingShares')
           /\ n = 0 =>
                /\ \A i \in mine : config'[i] = X
                /\ X \notin DOMAIN holdingShares'
                /\ X \in Range(stockCodeList) => X \in Range(stockCodeList')
           /\ n > 0 =>
                /\ mine # {}
                /\ \A i \in mine : config'[i] = X \o <<":">> \o IntToStr(n)
                /\ X \in DOMAIN holdingShares'
                /\ holdingShares'[X] = Num(n, 0)
                /\ X \in Range(stockCodeList')]_vars

C11_Witness ==
  /\ lastEvent.op = "updateHoldingShares"
  /\ lastEvent.arg.shares = 1
  /\ lastEvent.arg.stockCode = DefaultCode
  /\ config = <<DefaultCode \o <<":", "1">>, DefaultCode \o <<":", "1">>>>
  /\ holdingShares[DefaultCode] = Num(1, 0)

\* the row is the quote row of code: it shows the cached name and price
IsQuoteRow(row, code) ==
  /\ code \in DOMAIN stocksData
  /\ row.isRoot /\ row.stockCode = code
  /\ row.label = stocksData[code].name
  /\ row.iconPath[1] = "circle-filled"
  /\ StartsWith(row.description, stocksData[code].current)

\* the row is the failed row of code
IsFailedRow(row, code) ==
  /\ row.isRoot /\ row.stockCode = code
  /\ row.label = code
  /\ row.iconPath = <<"error">>

IsProfitLossRow(row) ==
  ~row.isRoot /\ row.stockCode = Undefined /\ row.label = <<"profit/loss today">>

IsUpdateTimeRow(row) ==
  ~row.isRoot /\ row.stockCode = Undefined /\ row.label = <<"update time">>

(***************************************************************************)
(* C12.  While isLoading is clear getRootItems does not throw and returns: *)
(* one row per entry of the code list, in the order of the list, the quote *)
(* row of the code when it has a quote in the cache and its failed row     *)
(* otherwise; then at most one profit/loss row; then at most one update    *)
(* time row; and nothing else, so no row for a cached code that is not in  *)
(* the list.                                                               *)
(***************************************************************************)
C12_RootListShape ==
  ~isLoading =>
    LET n == Len(stockCodeList)
    IN  /\ ~RootItemsThrow
        /\ Len(RootItems) \in {n, n + 1, n + 2}
        /\ \A i \in 1..n :
             IF stockCodeList[i] \in DOMAIN stocksData
             THEN IsQuoteRow(RootItems[i], stockCodeList[i])
             ELSE IsFailedRow(RootItems[i], stockCodeList[i])
        /\ Len(RootItems) = n + 1 =>
             IsProfitLossRow(RootItems[n + 1]) \/ IsUpdateTimeRow(RootItems[n + 1])
        /\ Len(RootItems) = n + 2 =>
             IsProfitLossRow(RootItems[n + 1]) /\ IsUpdateTimeRow(RootItems[n + 2])

C12_Witness ==
  /\ ~isLoading
  /\ Len(stockCodeList) = 2
  /\ stockCodeList[1] \in DOMAIN stocksData
  /\ stockCodeList[2] \notin DOMAIN stocksData
  /\ Len(RootItems) = 4

\* the held codes that have a quote in the cache
HeldAndQuoted == (DOMAIN holdingShares) \cap (DOMAIN stocksData)

\* the cached change of code, in thousandths
ChangeMilli(code) ==
  LET change == ParseFloat(stocksData[code].change)
  IN  change.m * Pow10(3 - change.e)

\* the sum of change x shares over codes, in thousandths (whole share counts)
RECURSIVE SumMilli(_)
SumMilli(codes) ==
  IF codes = {} THEN 0
  ELSE LET code == CHOOSE c \in codes : TRUE
       IN  ChangeMilli(code) * holdingShares[code].m + SumMilli(codes \ {code})

ProfitLossRows ==
  {i \in 1..Len(RootItems) : IsProfitLossRow(RootItems[i])}

(***************************************************************************)
(* C13.  While isLoading is clear the root list has a profit/loss row iff  *)
(* some code of the holdings map has a quote in the cache, and the row     *)
(* shows the sum of change x shares over exactly the held codes that have  *)
(* a quote, each counted once, with 2 decimals and a '+' when it is not    *)
(* negative.                                                               *)
(***************************************************************************)
C13_AggregateProfitLoss ==
  ~isLoading =>
    /\ (ProfitLossRows # {}) <=> (HeldAndQuoted # {})
    /\ \A i \in ProfitLossRows :
         RootItems[i].description =
           (IF SumMilli(HeldAndQuoted) >= 0 THEN <<"+">> ELSE <<>>)
             \o ToFixed(SumMilli(HeldAndQuoted), 1000, 2)

C13_Witness ==
  /\ ~isLoading
  /\ Cardinality(HeldAndQuoted) = 2
  /\ ProfitLossRows # {}

(***************************************************************************)
(* C14.  While isLoading is clear, every code of the code list that has no *)
(* quote in the cache has, at its place in the root list, the failed row   *)
(* carrying that code, and getDetailItems of the code returns no rows;     *)
(* getRootItems does not throw.                                            *)
(***************************************************************************)
C14_MissingQuoteIsFailedRow ==
  ~isLoading =>
    /\ ~RootItemsThrow
    /\ \A i \in 1..Len(stockCodeList) :
         stockCodeList[i] \notin DOMAIN stocksData =>
           /\ RootItems[i].stockCode = stockCodeList[i]
           /\ RootItems[i].description = <<"load failed">>
           /\ RootItems[i].contextValue = "stockRoot"
           /\ DetailItems(stockCodeList[i]) = <<>>

C14_Witness ==
  /\ ~isLoading
  /\ lastEvent.op = "end"
  /\ lastEvent.arg.kind = "diff"
  /\ stocksData # EmptyMap
  /\ stockCodeList # <<>>
  /\ stockCodeList[1] \notin DOMAIN stocksData
  /\ RootItems[1].description = <<"load failed">>

\* the digits a decimal text has after its point
FractionDigits(text) == Len(text) - IndexOf(text, ".")

\* text is the decimal rendering of scaled / 10^decimals with exactly decimals
\* digits after the point
Renders(text, scaled, decimals) ==
  /\ IndexOf(text, ".") # 0
  /\ FractionDigits(text) = decimals
  /\ ParseFloat(text) = Num(scaled, decimals)

\* the records of the response the "end" handler just decoded
Decoded ==
  IF lastEvent.op = "end" /\ lastEvent.arg.kind = "diff"
  THEN {lastEvent.arg.diff[i] :
          i \in {j \in 1..Len(lastEvent.arg.diff) : ~IsNull(lastEvent.arg.diff[j])}}
  ELSE {}

\* the cache key of a record, spelled from its market id and symbol
KeyOf(item) == IntToStr(item.f13) \o <<".">> \o item.f12

(***************************************************************************)
(* C15.  As the "end" handler returns, the quote of each record of the     *)
(* response shows price, change and previous close as the scaled integer   *)
(* divided by 1000 with exactly 3 decimals when the market id is 105, 106, *)
(* 107 or 116, and divided by 100 with exactly 2 decimals for any other    *)
(* market id; the percentage is divided by 100 with exactly 2 decimals for *)
(* every market.                                                           *)
(***************************************************************************)
C15_DecodeScaling ==
  \A item \in Decoded :
    LET decimals == IF item.f13 \in {105, 106, 107, 116} THEN 3 ELSE 2
    IN  /\ KeyOf(item) \in DOMAIN stocksData
        /\ Renders(stocksData[KeyOf(item)].current, item.f2, decimals)
        /\ Renders(stocksData[KeyOf(item)].change, item.f4, decimals)
        /\ Renders(stocksData[KeyOf(item)].previousClose, item.f18, decimals)
        /\ Renders(stocksData[KeyOf(item)].changePercent, item.f3, 2)

C15_Witness ==
  \E item \in Decoded :
    /\ item.f13 = 105
    /\ item.f2 = -5
    /\ stocksData[KeyOf(item)].current = <<"-", "0", ".", "0", "0", "5">>
    /\ stocksData[KeyOf(item)].change = <<"0", ".", "0", "0", "5">>
    /\ stocksData[KeyOf(item)].changePercent = <<"-", "1", ".", "2", "3">>

(***************************************************************************)
(* C16.  The registry is at all times what one reload of the setting       *)
(* gives, and a further reload with the setting unchanged (a manual        *)
(* refresh, or the refresh that ends a holdings edit) leaves the code list *)
(* and the holdings map as they are; when that reload also leaves the      *)
(* cache, the loading flag and the update time as they are, the root list  *)
(* is the same list.                                                       *)
(***************************************************************************)
C16_ReloadIdempotent ==
  /\ [](RegistryLoaded(config, stockCodeList, holdingShares))
  /\ [][lastEvent'.op \in {"refresh", "resumeUpdate"} =>
          /\ config' = config
          /\ ReloadLogged(console', stockCodeList')
          /\ stockCodeList' = stockCodeList
          /\ holdingShares' = holdingShares
          /\ (UNCHANGED <<stocksData, isLoading, lastUpdateTime>>
                => RootItems' = RootItems)]_vars

C16_Witness ==
  /\ lastEvent.op = "refresh"
  /\ config = <<EntryHeld, EntrySpaced>>
  /\ Len(stockCodeList) = 2
  /\ Cardinality(DOMAIN holdingShares) = 2

(***************************************************************************)
(* C17.  The cache changes only as a cycle completes: a handler that       *)
(* starts a cycle leaves the cache to its readers as the last completed    *)
(* cycle left it.  (The code breaks this: fetchAllStockData empties the    *)
(* cache before it sends the request, and getRootItems and getDetailItems  *)
(* read the emptied cache until the response arrives.)                     *)
(***************************************************************************)
C17_CacheChangesAtCompletionOnly ==
  [][stocksData' # stocksData => lastEvent'.op \in {"end", "error"}]_vars

(***************************************************************************)
(* C18.  Once no request is pending, the cache holds exactly the quotes of *)
(* the response that completed last, each stamped with the time of that    *)
(* response's cycle.  (The code breaks this when cycles overlap: the "end" *)
(* handler adds its quotes to what an earlier response stored.)            *)
(***************************************************************************)
C18_LastResponseDeterminesCache ==
  (lastEvent.op = "end" /\ lastEvent.arg.kind = "diff" /\ inflight = {}) =>
    /\ DOMAIN stocksData = {KeyOf(item) : item \in Decoded}
    /\ \A code \in DOMAIN stocksData : stocksData[code].updateTime = lastEvent.cycle

(***************************************************************************)
(* C19.  After a cycle that failed, the update time row of the root list   *)
(* does not show the time of that cycle: it shows the time of a cycle      *)
(* whose response was parsed, or is absent.  (The code breaks this:        *)
(* lastUpdateTime is written when a cycle starts.)                         *)
(***************************************************************************)
C19_UpdateTimeOfSuccessfulCycle ==
  (FailedCompletion(lastEvent) /\ ~isLoading) =>
    \A i \in 1..Len(RootItems) :
       IsUpdateTimeRow(RootItems[i]) => RootItems[i].description # lastEvent.cycle

(***************************************************************************)
(* C20.  Every share count of the holdings map is a finite number: a right *)
(* part that parses to Infinity gives no holding.  (The code breaks this:  *)
(* the test is !isNaN(shares) && shares > 0, which Infinity passes.)       *)
(***************************************************************************)
C20_HoldingsFinite ==
  \A code \in DOMAIN holdingShares : holdingShares[code].k = "num"

\* the entries of customCodes that are not blank, each trimmed
NonBlank(customCodes) ==
  SelectSeq([i \in 1..Len(customCodes) |-> Trim(customCodes[i])],
            LAMBDA entry : entry # <<>>)

\* list without the occurrences of stockCode
Without(list, stockCode) == SelectSeq(list, LAMBDA code : code # stockCode)

\* the holdings of the codes other than stockCode
OtherHoldings(held, stockCode) ==
  [code \in (DOMAIN held) \ {stockCode} |-> held[code]]

C22_UpdateIdempotent ==
  [][(lastEvent'.op = "updateHoldingShares" /\ lastEvent'.arg.shares >= 0) =>
       /\ NewCodes(config', lastEvent'.arg.stockCode, lastEvent'.arg.shares) = config'
       /\ RegistryLoaded(config', stockCodeList', holdingShares')]_vars

C22_Witness ==
  /\ lastEvent.op = "updateHoldingShares"
  /\ lastEvent.arg.stockCode = DefaultCode
  /\ lastEvent.arg.shares = 1
  /\ config = <<EntryNoCode, DefaultCode \o <<":", "1">>>>
  /\ stockCodeList = <<DefaultCode>>

\* the codes a detail list may be asked for
DetailCodes == Range(stockCodeList) \cup (DOMAIN stocksData) \cup {DefaultCode}

\* amount thousandths, written with 2 decimals and a '+' when not negative
SignedMilli(amount) ==
  (IF amount >= 0 THEN <<"+">> ELSE <<>>) \o ToFixed(amount, 1000, 2)

(***************************************************************************)
(* C23.  getDetailItems of a code without a quote in the cache returns no  *)
(* rows.  Of a code with a quote it returns the previous close row and the *)
(* change row (arrow and change), and after them, iff the holdings map has *)
(* the code, exactly two rows: the share count, and change x shares with 2 *)
(* decimals and a '+' when not negative.                                   *)
(***************************************************************************)
C23_DetailListShape ==
  \A code \in DetailCodes :
    IF code \notin DOMAIN stocksData THEN DetailItems(code) = <<>>
    ELSE
      /\ Len(DetailItems(code)) = IF code \in DOMAIN holdingShares THEN 4 ELSE 2
      /\ DetailItems(code)[1].label = <<"previous close">>
      /\ DetailItems(code)[1].description = stocksData[code].previousClose
      /\ DetailItems(code)[2].label = <<"change">>
      /\ DetailItems(code)[2].description =
           <<IF ChangeMilli(code) >= 0 THEN "up" ELSE "down", " ">>
             \o stocksData[code].change
      /\ code \in DOMAIN holdingShares =>
           /\ DetailItems(code)[3].label = <<"shares held">>
           /\ DetailItems(code)[3].description = IntToStr(holdingShares[code].m)
           /\ DetailItems(code)[4].label = <<"profit/loss today">>
           /\ DetailItems(code)[4].description =
                SignedMilli(ChangeMilli(code) * holdingShares[code].m)

C23_Witness ==
  /\ CodeHK \in DOMAIN stocksData
  /\ CodeHK \in DOMAIN holdingShares
  /\ DefaultCode \in DOMAIN stocksData
  /\ DefaultCode \notin DOMAIN holdingShares
  /\ Len(DetailItems(CodeHK)) = 4
  /\ DetailItems(CodeHK)[4].description = <<"-", "8", ".", "4", "0">>
  /\ Len(DetailItems(DefaultCode)) = 2

(***************************************************************************)
(* C24.  In the single-instrument provider, as the handler of a finished   *)
(* request returns (an "end" with any body, or an "error"), isLoading is   *)
(* clear, one change notification was fired and the root row is not the    *)
(* loading row.  (The code breaks this for a response that parses and has  *)
(* no data object: the "end" handler then does nothing.)                   *)
(***************************************************************************)
C24_FinishedRequestSignals ==
  lastEvent.op \in {"end", "error"} =>
    /\ ~isLoading
    /\ fired = 1
    /\ SingleRootItems[1].iconPath # "loading~spin"

(***************************************************************************)
(* C25.  isLoading is never set after construction; every completion of a  *)
(* cycle, of whichever cycle, leaves it clear; while it is set no cycle    *)
(* has completed, so every cycle started so far is still pending, and the  *)
(* root list is the loading placeholder exactly while it is set.           *)
(***************************************************************************)
C25_LoadingMonotonic ==
  /\ [][isLoading' => isLoading]_vars
  /\ [](lastEvent.op \in {"end", "error"} => ~isLoading)
  /\ [](isLoading => (clock >= 1 /\ inflight = 1..clock))
  /\ []((RootItems = <<LoadingItem>>) <=> isLoading)

C25_Witness ==
  /\ lastEvent.op = "end"
  /\ lastEvent.cycle = 2
  /\ inflight = {1}
  /\ clock = 3
  /\ ~isLoading

(***************************************************************************)
(* C26.  Every code of the holdings map is in the code list, and while     *)
(* isLoading is clear every held code that counts in the profit/loss row   *)
(* has a root row of its own.                                              *)
(***************************************************************************)
C26_HoldingsWithinCodeList ==
  /\ DOMAIN holdingShares \subseteq Range(stockCodeList)
  /\ ~isLoading =>
       \A code \in HeldAndQuoted :
          \E i \in 1..Len(stockCodeList) :
             stockCodeList[i] = code /\ IsQuoteRow(RootItems[i], code)

C26_Witness ==
  /\ lastEvent.op = "configChange"
  /\ config = <<EntryNoCode>>
  /\ holdingShares = EmptyMap
  /\ stockCodeList = <<>>

(***************************************************************************)
(* C27.  Every key of the cache holds a '.', so a code of the code list    *)
(* without a '.' never has a quote: its root row is the failed row, the    *)
(* market test is not reached for it and getRootItems does not throw.      *)
(***************************************************************************)
C27_NoThrowOnDotlessCode ==
  /\ \A code \in DOMAIN stocksData : IndexOf(code, ".") # 0
  /\ ~RootItemsThrow
  /\ ~isLoading =>
       \A i \in 1..Len(stockCodeList) :
          IndexOf(stockCodeList[i], ".") = 0 =>
            IsFailedRow(RootItems[i], stockCodeList[i])

C27_Witness ==
  /\ ~isLoading
  /\ stockCodeList = << <<"1">>, DefaultCode >>
  /\ DOMAIN stocksData = {<<"1", ".">>, DefaultCode}
  /\ RootItems[1].iconPath = <<"error">>
  /\ RootItems[2].iconPath[1] = "circle-filled"

=============================================================================
